---- MODULE Spec2Model ----
(***************************************************************************)
(* LLMAgent (src/puppy/agent.py): the per-step decision loop               *)
(*   ingest -> retrieve -> reflect -> act -> reinforce -> maintain         *)
(* over its collaborators BrainDB (memory store), Portfolio and the        *)
(* reflection endpoint.  The collaborators are outside the agent: the      *)
(* model records every call the agent makes to them, in order, and draws   *)
(* their replies from small sets.                                          *)
(***************************************************************************)
EXTENDS Integers, Sequences, FiniteSets, TLC

VARIABLES
    reflection_result_series_dict,  \* self.reflection_result_series_dict: date -> result
    access_counter,                 \* self.access_counter
    config,                         \* the scalar attributes of self (agent_name, top_k, ...)
    portfolio,                      \* self.portfolio: its window size, the dates it has an action for
    fs,                             \* the checkpoint directories on disk: path -> entries
    pc,                             \* "idle": between calls; "stepped", "saved", "loaded": a call has just ended
    steps_taken,                    \* number of step() calls made so far
    inp,                            \* arguments and collaborator replies of the last call
    calls,                          \* collaborator calls made by the last call, in order
    outcome                         \* how the last call ended: "return" or the exception raised

vars == <<reflection_result_series_dict, access_counter, config, portfolio, fs,
          pc, steps_taken, inp, calls, outcome>>

-----------------------------------------------------------------------------
(* Bounds                                                                  *)

\* Number of step() calls in a run; the k-th call is for one of the dates 1..k.
MaxSteps == 2

Dates == 1..MaxSteps

-----------------------------------------------------------------------------
(* Python values                                                           *)

\* None, and the empty dict {}: both are falsy.
None == <<>>

EmptyResult == <<>>

\* `x is None`.
IsNone(x) == DOMAIN x = {}

\* `if x:` for a dict or None.
Truthy(x) == DOMAIN x # {}

\* Document payloads carry their Python type: `x != {}` is true of every
\* value that is not an empty dict, an empty list or string included.
EmptyDict == [kind |-> "dict", items |-> <<>>]

EmptyList == [kind |-> "list", items |-> <<>>]

NeqEmptyDict(x) == ~(x.kind = "dict" /\ x.items = <<>>)

Range(s) == {s[i] : i \in DOMAIN s}

\* d[k] = v on a dict.
Put(d, k, v) == [x \in (DOMAIN d) \cup {k} |-> IF x = k THEN v ELSE d[x]]

\* The execution context threaded through the phases of one step():
\* the calls made so far, the reflection dict, and the pending exception.
Raised(ctx) == ctx.exc # "none"

Called(ctx, c) == [ctx EXCEPT !.calls = Append(@, c)]

Raise(ctx, e) == [ctx EXCEPT !.exc = e]

-----------------------------------------------------------------------------
(* Inputs of step() and replies of the collaborators                       *)

RunModes == {"Train", "Test", "Invalid"}

FilingPayloads(text) == {EmptyDict, [kind |-> "str", items |-> <<text>>]}

NewsPayloads == {EmptyDict, EmptyList, [kind |-> "list", items |-> <<"rate hike">>]}

\* The documents of one market_info: no document, exactly one payload that is
\* not the empty dict, or all three.
Documents ==
    {d \in [filing_q : FilingPayloads("10-Q"), filing_k : FilingPayloads("10-K"),
            news : NewsPayloads] :
        LET present == {f \in {"filing_q", "filing_k", "news"} : NeqEmptyDict(d[f])}
        IN  Cardinality(present) \in {0, 1, 3}}

\* cur_record: the realized future price difference (Train only).
Records == {-1, 0, 1}

Items(ids) == [i \in 1..Len(ids) |-> [memory_index |-> ids[i]]]

\* What trading_reflection may return: a dict with an optional decision, an
\* optional summary_reason and, per layer, an optional list of consulted
\* memory ids (possibly empty, possibly with repeats); or the empty dict.  A
\* result without summary_reason is what the agent logs as "not converged".
ReflectionResults ==
    { EmptyResult,
      [investment_decision |-> "buy", summary_reason |-> "momentum up",
       short_memory_index |-> Items(<<1, 2, 1>>)],
      [investment_decision |-> "sell",
       short_memory_index |-> Items(<<>>),
       middle_memory_index |-> Items(<<2>>),
       long_memory_index |-> Items(<<1, 1>>),
       reflection_memory_index |-> Items(<<2, 1>>)],
      [investment_decision |-> "hold", summary_reason |-> "wait",
       reflection_memory_index |-> Items(<<1>>)],
      [summary_reason |-> "price rose after news",
       middle_memory_index |-> Items(<<1>>),
       long_memory_index |-> Items(<<2>>)],
      [investment_decision |-> "strong buy", summary_reason |-> "sure"],
      [short_memory_index |-> Items(<<2>>)] }

\* Portfolio.get_moment: None (not enough history) or {"moment": m}.
MomentReplies == {None, [moment |-> 1]}

\* Portfolio.get_feedback_response: None, or {"feedback": m, "date": d}.
Magnitudes == {-1, 0, 1}

FeedbackReplies == {None} \cup [feedback : Magnitudes, date : Dates]

-----------------------------------------------------------------------------
(* The agent's methods                                                     *)

handling_filings(ctx, cur_date, filing_q, filing_k) ==
    LET c1 == IF NeqEmptyDict(filing_q)
              THEN Called(ctx, [op |-> "add_memory_mid", date |-> cur_date, text |-> filing_q])
              ELSE ctx
    IN  IF NeqEmptyDict(filing_k)
        THEN Called(c1, [op |-> "add_memory_long", date |-> cur_date, text |-> filing_k])
        ELSE c1

handling_news(ctx, cur_date, news) ==
    IF NeqEmptyDict(news)
    THEN Called(ctx, [op |-> "add_memory_short", date |-> cur_date, text |-> news])
    ELSE ctx

query_info_for_reflection(ctx, run_mode) ==
    LET c4 == Called(Called(Called(Called(ctx,
                  [op |-> "query_short"]), [op |-> "query_mid"]),
                  [op |-> "query_long"]), [op |-> "query_reflection"])
    IN  IF run_mode = "Test" THEN Called(c4, [op |-> "get_moment", moment_window |-> 2])
        ELSE c4

\* Mutant: every non-empty result is written to the reflection layer, with
\* result.get("summary_reason") as its text.
reflection_on_record_adds_any(ctx, cur_date, run_mode, cur_record, reply) ==
    LET c1 == query_info_for_reflection(ctx, run_mode)
        cur_moment == IF ~IsNone(reply.moment) THEN reply.moment["moment"] ELSE None
        c2 == IF run_mode = "Train"
              THEN Called(c1, [op |-> "trading_reflection", date |-> cur_date,
                               run_mode |-> run_mode, future_record |-> cur_record])
              ELSE Called(c1, [op |-> "trading_reflection", date |-> cur_date,
                               run_mode |-> run_mode, momentum |-> cur_moment])
        reflection_result == reply.reflection_result
    IN  IF Truthy(reflection_result)
        THEN Called(c2, [op |-> "add_memory_reflection", date |-> cur_date,
                         text |-> IF "summary_reason" \in DOMAIN reflection_result
                                  THEN reflection_result["summary_reason"]
                                  ELSE "None"])
        ELSE c2

reflection_on_record(ctx, cur_date, run_mode, cur_record, reply) ==
    LET c1 == query_info_for_reflection(ctx, run_mode)
        cur_moment == IF ~IsNone(reply.moment) THEN reply.moment["moment"] ELSE None
        c2 == IF run_mode = "Train"
              THEN Called(c1, [op |-> "trading_reflection", date |-> cur_date,
                               run_mode |-> run_mode, future_record |-> cur_record])
              ELSE Called(c1, [op |-> "trading_reflection", date |-> cur_date,
                               run_mode |-> run_mode, momentum |-> cur_moment])
        reflection_result == reply.reflection_result
    IN  IF Truthy(reflection_result) /\ "summary_reason" \in DOMAIN reflection_result
        THEN Called(c2, [op |-> "add_memory_reflection", date |-> cur_date,
                         text |-> reflection_result["summary_reason"]])
        ELSE c2

reflect(ctx, cur_date, run_mode, cur_record, reply) ==
    LET c1 == reflection_on_record(ctx, cur_date, run_mode, cur_record, reply)
        reflection_result_cur_date == reply.reflection_result
        c2 == [c1 EXCEPT !.dict = Put(@, cur_date, reflection_result_cur_date)]
    IN  IF /\ run_mode = "Test"
           /\ Truthy(reflection_result_cur_date)
           /\ "investment_decision" \notin DOMAIN reflection_result_cur_date
        THEN Raise(c2, "KeyError")
        ELSE c2

\* Mutant: a zero price difference counted as a rise.
construct_train_actions_ge(cur_record) ==
    [direction |-> IF cur_record >= 0 THEN 1 ELSE -1, quantity |-> 1]

construct_train_actions(cur_record) ==
    [direction |-> IF cur_record > 0 THEN 1 ELSE -1, quantity |-> 1]

portfolio_step(ctx, cur_actions) ==
    Called(Called(ctx, [op |-> "record_action", action |-> cur_actions]),
           [op |-> "update_portfolio_series"])

\* The ids of cur_memory[layer_index_name], each kept once, in order of first
\* occurrence (the loop of __update_access_counter_sub).
RECURSIVE collect_ids(_, _)
collect_ids(items, cur_ids) ==
    IF items = <<>> THEN cur_ids
    ELSE LET cur_id == Head(items)["memory_index"]
         IN  collect_ids(Tail(items),
                         IF cur_id \notin Range(cur_ids) THEN Append(cur_ids, cur_id)
                         ELSE cur_ids)

\* Mutant: the ids are passed on as listed, repeats included.
update_access_counter_sub_no_dedup(ctx, cur_memory, layer_index_name, feedback) ==
    Called(ctx, [op |-> "update_access_count_with_feed_back",
                 ids |-> [i \in DOMAIN cur_memory[layer_index_name] |->
                             cur_memory[layer_index_name][i]["memory_index"]],
                 feedback |-> feedback["feedback"]])

update_access_counter_sub(ctx, cur_memory, layer_index_name, feedback) ==
    Called(ctx, [op |-> "update_access_count_with_feed_back",
                 ids |-> collect_ids(cur_memory[layer_index_name], <<>>),
                 feedback |-> feedback["feedback"]])

update_short_memory_access_counter(ctx, feedback, cur_memory) ==
    IF "short_memory_index" \in DOMAIN cur_memory
    THEN update_access_counter_sub(ctx, cur_memory, "short_memory_index", feedback)
    ELSE ctx

update_mid_memory_access_counter(ctx, feedback, cur_memory) ==
    IF "middle_memory_index" \in DOMAIN cur_memory
    THEN update_access_counter_sub(ctx, cur_memory, "middle_memory_index", feedback)
    ELSE ctx

update_long_memory_access_counter(ctx, feedback, cur_memory) ==
    IF "long_memory_index" \in DOMAIN cur_memory
    THEN update_access_counter_sub(ctx, cur_memory, "long_memory_index", feedback)
    ELSE ctx

update_reflection_memory_access_counter(ctx, feedback, cur_memory) ==
    IF "reflection_memory_index" \in DOMAIN cur_memory
    THEN update_access_counter_sub(ctx, cur_memory, "reflection_memory_index", feedback)
    ELSE ctx

\* The result of an expression that may raise.
Value(v) == [exc |-> "none", value |-> v]

Failure(e) == [exc |-> e, value |-> None]

\* Every branch that finds the result truthy reads result["investment_decision"]:
\* a non-empty result without that key raises KeyError at the first branch.
process_test_action(test_reflection_result) ==
    IF /\ Truthy(test_reflection_result)
       /\ "investment_decision" \notin DOMAIN test_reflection_result
    THEN Failure("KeyError")
    ELSE IF Truthy(test_reflection_result)
            /\ test_reflection_result["investment_decision"] = "buy"
         THEN Value([direction |-> 1])
    ELSE IF Truthy(test_reflection_result)
            /\ test_reflection_result["investment_decision"] = "hold"
         THEN Value([direction |-> 0])
    ELSE IF Truthy(test_reflection_result)
            /\ test_reflection_result["investment_decision"] = "sell"
         THEN Value([direction |-> -1])
    ELSE Value([direction |-> 0])

\* dict.pop(k).
Without(d, k) == [x \in (DOMAIN d) \ {k} |-> d[x]]

\* Mutant: a reflection is dropped once its feedback has been used.
update_access_counter_consumes(ctx, reply) ==
    LET feedback == reply.feedback
        c1 == Called(ctx, [op |-> "get_feedback_response"])
    IN  IF ~Truthy(feedback) THEN c1
        ELSE IF feedback["feedback"] # 0
        THEN LET cur_date == feedback["date"]
             IN  IF cur_date \notin DOMAIN c1.dict THEN Raise(c1, "KeyError")
                 ELSE LET cur_memory == c1.dict[cur_date]
                          c2 == update_reflection_memory_access_counter(
                                  update_long_memory_access_counter(
                                    update_mid_memory_access_counter(
                                      update_short_memory_access_counter(c1, feedback, cur_memory),
                                      feedback, cur_memory),
                                    feedback, cur_memory),
                                  feedback, cur_memory)
                      IN  [c2 EXCEPT !.dict = Without(@, cur_date)]
        ELSE c1

\* Mutant: feedback for a date without a stored reflection is skipped silently.
update_access_counter_skips_missing(ctx, reply) ==
    LET feedback == reply.feedback
        c1 == Called(ctx, [op |-> "get_feedback_response"])
    IN  IF ~Truthy(feedback) THEN c1
        ELSE IF feedback["feedback"] # 0 /\ feedback["date"] \in DOMAIN c1.dict
        THEN LET cur_memory == c1.dict[feedback["date"]]
             IN  update_reflection_memory_access_counter(
                   update_long_memory_access_counter(
                     update_mid_memory_access_counter(
                       update_short_memory_access_counter(c1, feedback, cur_memory),
                       feedback, cur_memory),
                     feedback, cur_memory),
                   feedback, cur_memory)
        ELSE c1

\* Mutant: feedback of magnitude zero is reinforced like any other.
update_access_counter_reinforces_zero(ctx, reply) ==
    LET feedback == reply.feedback
        c1 == Called(ctx, [op |-> "get_feedback_response"])
    IN  IF ~Truthy(feedback) THEN c1
        ELSE IF feedback["date"] \notin DOMAIN c1.dict THEN Raise(c1, "KeyError")
        ELSE LET cur_memory == c1.dict[feedback["date"]]
             IN  update_reflection_memory_access_counter(
                   update_long_memory_access_counter(
                     update_mid_memory_access_counter(
                       update_short_memory_access_counter(c1, feedback, cur_memory),
                       feedback, cur_memory),
                     feedback, cur_memory),
                   feedback, cur_memory)

update_access_counter(ctx, reply) ==
    LET feedback == reply.feedback
        c1 == Called(ctx, [op |-> "get_feedback_response"])
    IN  IF ~Truthy(feedback) THEN c1
        ELSE IF feedback["feedback"] # 0
        THEN LET cur_date == feedback["date"]
             IN  IF cur_date \notin DOMAIN c1.dict THEN Raise(c1, "KeyError")
                 ELSE LET cur_memory == c1.dict[cur_date]
                      IN  update_reflection_memory_access_counter(
                            update_long_memory_access_counter(
                              update_mid_memory_access_counter(
                                update_short_memory_access_counter(c1, feedback, cur_memory),
                                feedback, cur_memory),
                              feedback, cur_memory),
                            feedback, cur_memory)
        ELSE c1

\* Mutant: the action is read off the reflection in Train mode too.
decide_action_from_reflection(ctx, run_mode, cur_date, cur_record) ==
    process_test_action(ctx.dict[cur_date])

\* step(), lines 416-422: the action of this step.
decide_action(ctx, run_mode, cur_date, cur_record) ==
    IF run_mode = "Train" THEN Value(construct_train_actions(cur_record))
    ELSE process_test_action(ctx.dict[cur_date])

\* Mutant: brain.step() is left out on a step whose reflection came back empty.
step_phases_skips_maintenance(ctx, market_info, run_mode, reply) ==
    LET cur_date == market_info.cur_date
        c1 == handling_filings(ctx, cur_date, market_info.filing_q, market_info.filing_k)
        c2 == handling_news(c1, cur_date, market_info.news)
        c3 == Called(c2, [op |-> "update_market_info", date |-> cur_date,
                          price |-> market_info.cur_price])
        c4 == reflect(c3, cur_date, run_mode, market_info.cur_record, reply)
        cur_action == decide_action(c4, run_mode, cur_date, market_info.cur_record)
        c5 == IF Raised(c4) THEN c4
              ELSE IF cur_action.exc # "none" THEN Raise(c4, cur_action.exc)
              ELSE portfolio_step(c4, cur_action.value)
        c6 == IF Raised(c5) THEN c5 ELSE update_access_counter(c5, reply)
    IN  IF Raised(c6) \/ ~Truthy(reply.reflection_result) THEN c6
        ELSE Called(c6, [op |-> "brain_step"])

\* Mutant: the news is stored after the reflection, not before the queries.
step_phases_news_last(ctx, market_info, run_mode, reply) ==
    LET cur_date == market_info.cur_date
        c1 == handling_filings(ctx, cur_date, market_info.filing_q, market_info.filing_k)
        c3 == Called(c1, [op |-> "update_market_info", date |-> cur_date,
                          price |-> market_info.cur_price])
        c4 == reflect(c3, cur_date, run_mode, market_info.cur_record, reply)
        c4n == IF Raised(c4) THEN c4 ELSE handling_news(c4, cur_date, market_info.news)
        cur_action == decide_action(c4n, run_mode, cur_date, market_info.cur_record)
        c5 == IF Raised(c4n) THEN c4n
              ELSE IF cur_action.exc # "none" THEN Raise(c4n, cur_action.exc)
              ELSE portfolio_step(c4n, cur_action.value)
        c6 == IF Raised(c5) THEN c5 ELSE update_access_counter(c5, reply)
    IN  IF Raised(c6) THEN c6 ELSE Called(c6, [op |-> "brain_step"])

\* step(), lines 399-428: the phases of a step that is neither refused nor skipped.
step_phases(ctx, market_info, run_mode, reply) ==
    LET cur_date == market_info.cur_date
        c1 == handling_filings(ctx, cur_date, market_info.filing_q, market_info.filing_k)
        c2 == handling_news(c1, cur_date, market_info.news)
        c3 == Called(c2, [op |-> "update_market_info", date |-> cur_date,
                          price |-> market_info.cur_price])
        c4 == reflect(c3, cur_date, run_mode, market_info.cur_record, reply)
        cur_action == decide_action(c4, run_mode, cur_date, market_info.cur_record)
        c5 == IF Raised(c4) THEN c4
              ELSE IF cur_action.exc # "none" THEN Raise(c4, cur_action.exc)
              ELSE portfolio_step(c4, cur_action.value)
        c6 == IF Raised(c5) THEN c5 ELSE update_access_counter(c5, reply)
    IN  IF Raised(c6) THEN c6 ELSE Called(c6, [op |-> "brain_step"])

\* Mutant: the done flag is not looked at.
step_ignores_done(ctx, market_info, run_mode, reply) ==
    IF run_mode \notin {"Train", "Test"} THEN Raise(ctx, "ValueError")
    ELSE step_phases(ctx, market_info, run_mode, reply)

\* Mutant: the done flag is looked at before the run mode.
step_done_first(ctx, market_info, run_mode, reply) ==
    IF market_info.done THEN ctx
    ELSE IF run_mode \notin {"Train", "Test"} THEN Raise(ctx, "ValueError")
    ELSE step_phases(ctx, market_info, run_mode, reply)

step(ctx, market_info, run_mode, reply) ==
    IF run_mode \notin {"Train", "Test"} THEN Raise(ctx, "ValueError")
    ELSE IF market_info.done THEN ctx
    ELSE step_phases(ctx, market_info, run_mode, reply)

-----------------------------------------------------------------------------
(* Construction, save_checkpoint and load_checkpoint                       *)

DefaultLookBackWindowSize == 7

ConfiguredTopK == 5

LookBackWindowSizes == {DefaultLookBackWindowSize, 3}

\* LLMAgent.__init__: the attributes of a freshly constructed agent.  The
\* Portfolio is built with the agent's look-back window and has no action yet.
LLMAgent(agent_name, trading_symbol, character_string, top_k, chat_end_point_name, chat_end_point_config, look_back_window_size) ==
    [config |-> [counter |-> 1,
                 top_k |-> top_k,
                 agent_name |-> agent_name,
                 trading_symbol |-> trading_symbol,
                 character_string |-> character_string,
                 chat_end_point_name |-> chat_end_point_name,
                 chat_end_point_config |-> chat_end_point_config,
                 look_back_window_size |-> look_back_window_size],
     portfolio |-> [lookback_window_size |-> look_back_window_size,
                    action_dates |-> {}],
     reflection_result_series_dict |-> <<>>,
     access_counter |-> <<>>]

\* LLMAgent.from_config for a configuration naming window size w.
from_config(w) ==
    LLMAgent("agent_1", "TSLA", "risk seeking", ConfiguredTopK, "openai",
             [model_name |-> "gpt-4"], w)

\* os.path.join
Join(path, name) == path \o "/" \o name

CheckpointRoot == "ckpt"

\* Contents of a directory that save_checkpoint did not write.
ForeignDir == [x \in {"notes.txt"} |-> [text |-> "old"]]

\* The directory os.mkdir creates, and the "brain" sub-directory before and
\* after BrainDB.save_checkpoint has written into it.
EmptyDir == <<>>

EmptyBrainDir == [files |-> {}]

SavedBrainDir == [files |-> {"brain_db"}]

\* The file open(..., "wb") leaves behind when pickle.dump does not complete.
TruncatedFile == [truncated |-> TRUE]

\* What the operating system and BrainDB answer during a save or a load.
SaveReplies == [dump : {"ok", "OSError"}, brain : {"ok", "BrainError"}]

LoadReplies == [brain : {"ok", "BrainError"}]

\* save_checkpoint with the existing destination removed whether or not force is set.
save_checkpoint_always_removes(disk, self, path, force, io) ==
    LET dest == Join(path, self.config.agent_name)
        exists == dest \in DOMAIN disk
        removed == [x \in (DOMAIN disk) \ {dest} |-> disk[x]]
        made == Put(IF exists THEN removed ELSE disk, dest,
                    Put(EmptyDir, "brain", EmptyBrainDir))
        state_dict == [agent_name |-> self.config.agent_name,
                       character_string |-> self.config.character_string,
                       top_k |-> self.config.top_k,
                       counter |-> self.config.counter,
                       trading_symbol |-> self.config.trading_symbol,
                       chat_end_point_name |-> self.config.chat_end_point_name,
                       chat_end_point_config |-> self.config.chat_end_point_config,
                       portfolio |-> self.portfolio,
                       reflection_result_series_dict |-> self.reflection_result_series_dict,
                       access_counter |-> self.access_counter]
        dumped == Put(made, dest, Put(made[dest], "state_dict.pkl", state_dict))
        partial == Put(made, dest, Put(made[dest], "state_dict.pkl", TruncatedFile))
        brain_call == <<[op |-> "brain.save_checkpoint", path |-> Join(dest, "brain"),
                         force |-> force]>>
        saved == Put(dumped, dest, Put(dumped[dest], "brain", SavedBrainDir))
    IN  IF io.dump # "ok"
        THEN [disk |-> partial, exc |-> io.dump, calls |-> <<>>]
        ELSE IF io.brain # "ok"
        THEN [disk |-> dumped, exc |-> io.brain, calls |-> brain_call]
        ELSE [disk |-> saved, exc |-> "none", calls |-> brain_call]

\* save_checkpoint(path, force) of the agent self on the file system disk:
\* the file system it leaves, the exception it ends with, the calls it makes.
save_checkpoint(disk, self, path, force, io) ==
    LET dest == Join(path, self.config.agent_name)
        exists == dest \in DOMAIN disk
        removed == [x \in (DOMAIN disk) \ {dest} |-> disk[x]]
        made == Put(IF exists THEN removed ELSE disk, dest,
                    Put(EmptyDir, "brain", EmptyBrainDir))
        state_dict == [agent_name |-> self.config.agent_name,
                       character_string |-> self.config.character_string,
                       top_k |-> self.config.top_k,
                       counter |-> self.config.counter,
                       trading_symbol |-> self.config.trading_symbol,
                       chat_end_point_name |-> self.config.chat_end_point_name,
                       chat_end_point_config |-> self.config.chat_end_point_config,
                       portfolio |-> self.portfolio,
                       reflection_result_series_dict |-> self.reflection_result_series_dict,
                       access_counter |-> self.access_counter]
        dumped == Put(made, dest, Put(made[dest], "state_dict.pkl", state_dict))
        partial == Put(made, dest, Put(made[dest], "state_dict.pkl", TruncatedFile))
        brain_call == <<[op |-> "brain.save_checkpoint", path |-> Join(dest, "brain"),
                         force |-> force]>>
        saved == Put(dumped, dest, Put(dumped[dest], "brain", SavedBrainDir))
    IN  IF exists /\ ~force
        THEN [disk |-> disk, exc |-> "FileExistsError", calls |-> <<>>]
        ELSE IF io.dump # "ok"
        THEN [disk |-> partial, exc |-> io.dump, calls |-> <<>>]
        ELSE IF io.brain # "ok"
        THEN [disk |-> dumped, exc |-> io.brain, calls |-> brain_call]
        ELSE [disk |-> saved, exc |-> "none", calls |-> brain_call]

\* load_checkpoint with the reflections of the snapshot left out of the restored agent.
load_checkpoint_without_reflections(disk, path, io) ==
    LET readable == /\ path \in DOMAIN disk
                    /\ "state_dict.pkl" \in DOMAIN disk[path]
        file == disk[path]["state_dict.pkl"]
        state_dict == file
        brain_call == <<[op |-> "brain.load_checkpoint", path |-> Join(path, "brain")]>>
        class_obj == LLMAgent(state_dict.agent_name, state_dict.trading_symbol,
                              state_dict.character_string, state_dict.top_k,
                              state_dict.chat_end_point_name,
                              state_dict.chat_end_point_config,
                              DefaultLookBackWindowSize)
        restored == [class_obj EXCEPT
                        !.portfolio = state_dict.portfolio,
                        !.access_counter = state_dict.access_counter,
                        !.config.counter = state_dict.counter]
    IN  IF ~readable
        THEN [exc |-> "FileNotFoundError", calls |-> <<>>, obj |-> None]
        ELSE IF "truncated" \in DOMAIN file
        THEN [exc |-> "UnpicklingError", calls |-> <<>>, obj |-> None]
        ELSE IF io.brain # "ok"
        THEN [exc |-> io.brain, calls |-> brain_call, obj |-> None]
        ELSE [exc |-> "none", calls |-> brain_call, obj |-> restored]

\* load_checkpoint(path): the exception it ends with, the calls it makes and
\* the agent it returns.  The constructor is called without a look-back
\* window, which therefore takes its default.
load_checkpoint(disk, path, io) ==
    LET readable == /\ path \in DOMAIN disk
                    /\ "state_dict.pkl" \in DOMAIN disk[path]
        file == disk[path]["state_dict.pkl"]
        state_dict == file
        brain_call == <<[op |-> "brain.load_checkpoint", path |-> Join(path, "brain")]>>
        class_obj == LLMAgent(state_dict.agent_name, state_dict.trading_symbol,
                              state_dict.character_string, state_dict.top_k,
                              state_dict.chat_end_point_name,
                              state_dict.chat_end_point_config,
                              DefaultLookBackWindowSize)
        restored == [class_obj EXCEPT
                        !.portfolio = state_dict.portfolio,
                        !.reflection_result_series_dict =
                            state_dict.reflection_result_series_dict,
                        !.access_counter = state_dict.access_counter,
                        !.config.counter = state_dict.counter]
    IN  IF ~readable
        THEN [exc |-> "FileNotFoundError", calls |-> <<>>, obj |-> None]
        ELSE IF "truncated" \in DOMAIN file
        THEN [exc |-> "UnpicklingError", calls |-> <<>>, obj |-> None]
        ELSE IF io.brain # "ok"
        THEN [exc |-> io.brain, calls |-> brain_call, obj |-> None]
        ELSE [exc |-> "none", calls |-> brain_call, obj |-> restored]

-----------------------------------------------------------------------------
(* The state machine                                                       *)

NoInput == [run_mode |-> "none"]

\* Portfolio.record_action files the action under the date of the last
\* update_market_info: the dates the Portfolio holds an action for after a step.
record_action(pf, end, cur_date) ==
    IF \E i \in DOMAIN end.calls : end.calls[i].op = "record_action"
    THEN [pf EXCEPT !.action_dates = @ \cup {cur_date}]
    ELSE pf

\* The agent as one value, and the assignment of one to the agent.
Self ==
    [config |-> config, portfolio |-> portfolio,
     reflection_result_series_dict |-> reflection_result_series_dict,
     access_counter |-> access_counter]

Becomes(obj) ==
    /\ config' = obj.config
    /\ portfolio' = obj.portfolio
    /\ reflection_result_series_dict' = obj.reflection_result_series_dict
    /\ access_counter' = obj.access_counter

InitWith(look_back_window_sizes, disks) ==
    /\ \E w \in look_back_window_sizes :
          LET obj == from_config(w)
          IN  /\ config = obj.config
              /\ portfolio = obj.portfolio
              /\ reflection_result_series_dict = obj.reflection_result_series_dict
              /\ access_counter = obj.access_counter
    /\ fs \in disks
    /\ pc = "idle"
    /\ steps_taken = 0
    /\ inp = NoInput
    /\ calls = <<>>
    /\ outcome = "none"

Init == InitWith({DefaultLookBackWindowSize}, {<<>>})

\* The effect of one call of step(market_info, run_mode) with the given replies.
StepEffect(market_info, run_mode, reply) ==
    LET ctx == [calls |-> <<>>, dict |-> reflection_result_series_dict,
                exc |-> "none"]
        end == step(ctx, market_info, run_mode, reply)
    IN  /\ reflection_result_series_dict' = end.dict
        /\ portfolio' = record_action(portfolio, end, market_info.cur_date)
        /\ calls' = end.calls
        /\ outcome' = IF Raised(end) THEN end.exc ELSE "return"
        /\ inp' = [run_mode |-> run_mode, market_info |-> market_info,
                   reply |-> reply]
        /\ pc' = "stepped"
        /\ steps_taken' = steps_taken + 1
        /\ UNCHANGED <<access_counter, config, fs>>

\* One call of step(market_info, run_mode).  cur_record is a number in Train
\* mode and None otherwise; get_moment is asked in Test mode only.
Step ==
    /\ pc = "idle"
    /\ steps_taken < MaxSteps
    /\ \E run_mode \in RunModes, done \in BOOLEAN, cur_date \in 1..(steps_taken + 1),
          docs \in Documents,
          reflection_result \in ReflectionResults, feedback \in FeedbackReplies :
       \E cur_record \in (IF run_mode = "Train" THEN Records ELSE {None}),
          moment \in (IF run_mode = "Test" THEN MomentReplies ELSE {None}) :
          StepEffect([cur_date |-> cur_date, cur_price |-> 100,
                      filing_k |-> docs.filing_k, filing_q |-> docs.filing_q,
                      news |-> docs.news, cur_record |-> cur_record, done |-> done],
                     run_mode,
                     [reflection_result |-> reflection_result, moment |-> moment,
                      feedback |-> feedback])

\* The caller moves on to its next call: what it observed of the last one is dropped.
NextCall ==
    /\ pc # "idle"
    /\ pc' = "idle"
    /\ inp' = NoInput
    /\ calls' = <<>>
    /\ outcome' = "none"
    /\ UNCHANGED <<reflection_result_series_dict, access_counter, config, portfolio,
                   fs, steps_taken>>

Next == Step \/ NextCall

Spec == Init /\ [][Next]_vars

-----------------------------------------------------------------------------
(* The agent with checkpoints: steps, saves and restores                   *)

\* The results and the feedback of the steps taken between checkpoints.  The
\* Portfolio reports feedback only for a date it holds an action for, the
\* date of the current step included.
CheckpointResults == {r \in ReflectionResults : DOMAIN r \subseteq {"short_memory_index"}}

RecordedFeedback(cur_date) ==
    {None} \cup {[feedback |-> -1, date |-> d] : d \in portfolio.action_dates \cup {cur_date}}

CheckpointStep ==
    /\ pc = "idle"
    /\ steps_taken < MaxSteps
    /\ \E run_mode \in {"Train", "Test"}, cur_date \in 1..(steps_taken + 1),
          reflection_result \in CheckpointResults :
       \E feedback \in RecordedFeedback(cur_date) :
          StepEffect([cur_date |-> cur_date, cur_price |-> 100,
                      filing_k |-> EmptyDict, filing_q |-> EmptyDict,
                      news |-> EmptyDict,
                      cur_record |-> IF run_mode = "Train" THEN 1 ELSE None,
                      done |-> FALSE],
                     run_mode,
                     [reflection_result |-> reflection_result, moment |-> None,
                      feedback |-> feedback])

\* One call of save_checkpoint(path, force).
SaveCheckpoint ==
    /\ pc = "idle"
    /\ \E force \in BOOLEAN, io \in SaveReplies :
          LET end == save_checkpoint(fs, Self, CheckpointRoot, force, io)
          IN  /\ fs' = end.disk
              /\ calls' = end.calls
              /\ outcome' = IF Raised(end) THEN end.exc ELSE "return"
              /\ inp' = [run_mode |-> "none", op |-> "save_checkpoint",
                         path |-> CheckpointRoot, force |-> force, io |-> io,
                         exists |-> Join(CheckpointRoot, config.agent_name) \in DOMAIN fs]
    /\ pc' = "saved"
    /\ UNCHANGED <<reflection_result_series_dict, access_counter, config, portfolio,
                   steps_taken>>

\* One call of load_checkpoint(path); the caller goes on with the agent it
\* returns, and keeps the one it has when the call raises.
LoadCheckpoint ==
    /\ pc = "idle"
    /\ \E path \in {CheckpointRoot, Join(CheckpointRoot, config.agent_name)},
          io \in LoadReplies :
          LET end == load_checkpoint(fs, path, io)
          IN  /\ IF Raised(end) THEN UNCHANGED <<reflection_result_series_dict,
                                                 access_counter, config, portfolio>>
                                ELSE Becomes(end.obj)
              /\ calls' = end.calls
              /\ outcome' = IF Raised(end) THEN end.exc ELSE "return"
              /\ inp' = [run_mode |-> "none", op |-> "load_checkpoint",
                         path |-> path, io |-> io, before |-> Self]
    /\ pc' = "loaded"
    /\ UNCHANGED <<fs, steps_taken>>

CheckpointInit == InitWith(LookBackWindowSizes, {<<>>, Put(<<>>, Join(CheckpointRoot, "agent_1"), ForeignDir)})

CheckpointNext == CheckpointStep \/ SaveCheckpoint \/ LoadCheckpoint \/ NextCall

CheckpointSpec == CheckpointInit /\ [][CheckpointNext]_vars

-----------------------------------------------------------------------------
(* What the last step() did                                                *)

Stepped == pc = "stepped"

ValidMode == inp.run_mode \in {"Train", "Test"}

\* The last step() had a valid run mode and the done flag unset.
Ran == Stepped /\ ValidMode /\ ~inp.market_info.done

CallsOf(op) == SelectSeq(calls, LAMBDA c : c.op = op)

Count(op) == Len(CallsOf(op))

Reinforcements == CallsOf("update_access_count_with_feed_back")

\* The last step() reached the reinforce phase and polled Portfolio for feedback.
Polled == Stepped /\ Count("get_feedback_response") = 1

Feedback == inp.reply.feedback

Result == inp.reply.reflection_result

CurDate == inp.market_info.cur_date

AppliedAction == CallsOf("record_action")[1].action

LayerKeys ==
    <<"short_memory_index", "middle_memory_index", "long_memory_index",
      "reflection_memory_index">>

\* The layers a stored reflection has an id list for, in the order they are visited.
LayersOf(r) == SelectSeq(LayerKeys, LAMBDA k : k \in DOMAIN r)

RecordedIds(r, k) == {r[k][i]["memory_index"] : i \in DOMAIN r[k]}

Sign(x) == IF x > 0 THEN 1 ELSE IF x < 0 THEN -1 ELSE 0

-----------------------------------------------------------------------------
(* Claims                                                                  *)

\* C1: a step() call with run mode Train or Test and the done flag set makes
\* no collaborator call at all, returns normally and leaves
\* reflection_result_series_dict (and access_counter) as they were.
C1_DoneStepIsNoOp ==
    [][ ( /\ pc = "idle" /\ pc' = "stepped"
          /\ inp'.run_mode \in {"Train", "Test"}
          /\ inp'.market_info.done )
        => ( /\ calls' = <<>>
             /\ outcome' = "return"
             /\ reflection_result_series_dict' = reflection_result_series_dict
             /\ access_counter' = access_counter ) ]_vars

\* C1 witness: a done step taken with documents, news and feedback on offer and
\* a reflection already stored.
C1_Witness ==
    /\ Stepped /\ ValidMode /\ inp.market_info.done
    /\ DOMAIN reflection_result_series_dict # {}
    /\ NeqEmptyDict(inp.market_info.news)
    /\ Truthy(Feedback) /\ Truthy(Result)
    /\ calls = <<>>

\* C2: a step() call whose run mode is neither Train nor Test raises ValueError
\* with no collaborator call made and reflection_result_series_dict unchanged,
\* whether or not done is set.
C2_InvalidModeFailsFirst ==
    [][ ( /\ pc = "idle" /\ pc' = "stepped"
          /\ inp'.run_mode \notin {"Train", "Test"} )
        => ( /\ outcome' = "ValueError"
             /\ calls' = <<>>
             /\ reflection_result_series_dict' = reflection_result_series_dict
             /\ access_counter' = access_counter ) ]_vars

\* C2 witness: an invalid-mode call with done set, refused.
C2_Witness ==
    /\ Stepped /\ ~ValidMode /\ inp.market_info.done
    /\ DOMAIN reflection_result_series_dict # {}
    /\ outcome = "ValueError"

\* C3 (as claimed): every non-done Test step applies exactly one action, of
\* direction 1 for decision buy, -1 for sell, and 0 for hold, for an empty
\* result, for a non-empty result without a decision, and for any other label.
C3_TestActionFromDecision ==
    (Ran /\ inp.run_mode = "Test")
    => /\ Count("record_action") = 1
       /\ AppliedAction.direction =
            ( IF "investment_decision" \notin DOMAIN Result THEN 0
              ELSE IF Result["investment_decision"] = "buy" THEN 1
              ELSE IF Result["investment_decision"] = "sell" THEN -1
              ELSE 0 )

\* C4: every non-done Train step applies exactly one action, with direction +1
\* when cur_record is positive and -1 when it is zero or negative, and quantity
\* 1, whatever trading_reflection returned.
C4_TrainActionFromRecord ==
    (Ran /\ inp.run_mode = "Train")
    => /\ Count("record_action") = 1
       /\ DOMAIN AppliedAction = {"direction", "quantity"}
       /\ AppliedAction.quantity = 1
       /\ (inp.market_info.cur_record >= 1 => AppliedAction.direction = 1)
       /\ (inp.market_info.cur_record <= 0 => AppliedAction.direction = -1)

\* C4 witness: a Train step with a zero price difference and an empty result,
\* sold one unit.
C4_Witness ==
    /\ Ran /\ inp.run_mode = "Train"
    /\ inp.market_info.cur_record = 0
    /\ ~Truthy(Result)
    /\ Count("record_action") = 1
    /\ AppliedAction = [direction |-> -1, quantity |-> 1]

\* C5 (as claimed): in every non-done Train step the applied direction is
\* sign(cur_record), for positive, zero and negative cur_record.
C5_TrainDirectionIsSign ==
    (Ran /\ inp.run_mode = "Train")
    => /\ Count("record_action") = 1
       /\ AppliedAction.direction = Sign(inp.market_info.cur_record)

\* C5 (amended): in every non-done Train step the applied direction is
\* sign(cur_record) when cur_record is not zero and -1 when it is zero,
\* whatever the reflection result holds.
C5_TrainDirectionIsSignOrShort ==
    (Ran /\ inp.run_mode = "Train")
    => /\ Count("record_action") = 1
       /\ AppliedAction.direction =
            (IF inp.market_info.cur_record = 0 THEN -1
             ELSE Sign(inp.market_info.cur_record))

\* C5 witness: a Train step with a zero price difference whose reflection says
\* buy: direction -1 all the same.
C5_Witness ==
    /\ Ran /\ inp.run_mode = "Train"
    /\ inp.market_info.cur_record = 0
    /\ "investment_decision" \in DOMAIN Result
    /\ Result["investment_decision"] = "buy"
    /\ Count("record_action") = 1
    /\ AppliedAction.direction = -1

\* C6 (as claimed): in every non-done step the mid layer gets one add iff
\* filing_q is non-empty, the long layer one add iff filing_k is non-empty, the
\* short layer one add iff the news list is non-empty; an empty payload of any
\* kind, an empty news list included, is not written.
C6_IngestionByEmptiness ==
    Ran
    => /\ Count("add_memory_mid") = (IF inp.market_info.filing_q.items # <<>> THEN 1 ELSE 0)
       /\ Count("add_memory_long") = (IF inp.market_info.filing_k.items # <<>> THEN 1 ELSE 0)
       /\ Count("add_memory_short") = (IF inp.market_info.news.items # <<>> THEN 1 ELSE 0)

\* C7: after the reflect phase of every non-done step,
\* reflection_result_series_dict[cur_date] is exactly what trading_reflection
\* returned (the empty dict included), also when the step then fails; and the
\* reflection layer gets exactly one add, of the summary_reason text under
\* cur_date, iff the result has a summary_reason, and none otherwise.
C7_ReflectionStored ==
    Ran
    => /\ CurDate \in DOMAIN reflection_result_series_dict
       /\ DOMAIN reflection_result_series_dict[CurDate] = DOMAIN Result
       /\ \A k \in DOMAIN Result : reflection_result_series_dict[CurDate][k] = Result[k]
       /\ Count("add_memory_reflection") =
            (IF "summary_reason" \in DOMAIN Result THEN 1 ELSE 0)
       /\ \A i \in DOMAIN calls :
            calls[i].op = "add_memory_reflection"
            => /\ calls[i].text = Result["summary_reason"]
               /\ calls[i].date = CurDate

\* C7 witness: a Test step whose result has a summary_reason but no decision:
\* stored and written to the reflection layer although the step then fails.
C7_Witness ==
    /\ Ran /\ inp.run_mode = "Test"
    /\ "summary_reason" \in DOMAIN Result
    /\ outcome = "KeyError"
    /\ Count("add_memory_reflection") = 1
    /\ DOMAIN reflection_result_series_dict[CurDate] = DOMAIN Result

\* C8: when the reinforce phase gets feedback of non-zero magnitude m for a date
\* D that has a stored reflection, it makes one reinforcement call per layer
\* listed in that reflection, in layer order, each with magnitude m and with
\* exactly the ids recorded for that layer under D, each id once; so no id of
\* another date and no id absent from D's record is reinforced.
C8_ReinforceRecordedIds ==
    ( /\ Polled /\ Truthy(Feedback) /\ Feedback["feedback"] # 0
      /\ Feedback["date"] \in DOMAIN reflection_result_series_dict )
    => LET cur_memory == reflection_result_series_dict[Feedback["date"]]
           layers == LayersOf(cur_memory)
       IN  /\ Len(Reinforcements) = Len(layers)
           /\ \A i \in DOMAIN Reinforcements :
                /\ Reinforcements[i].feedback = Feedback["feedback"]
                /\ Range(Reinforcements[i].ids) = RecordedIds(cur_memory, layers[i])
                /\ Cardinality(Range(Reinforcements[i].ids)) = Len(Reinforcements[i].ids)

\* C8 witness: feedback for an earlier date whose reflection lists a repeated
\* short id, while the current date's reflection lists other layers.
C8_Witness ==
    /\ Polled /\ Truthy(Feedback) /\ Feedback["feedback"] # 0
    /\ Feedback["date"] \in DOMAIN reflection_result_series_dict
    /\ Feedback["date"] # CurDate
    /\ LayersOf(reflection_result_series_dict[Feedback["date"]]) = <<"short_memory_index">>
    /\ LayersOf(reflection_result_series_dict[CurDate]) # <<"short_memory_index">>
    /\ Len(Reinforcements) = 1
    /\ Reinforcements[1].ids = <<1, 2>>

\* C9: when the reinforce phase gets feedback of non-zero magnitude for a date
\* with no entry in reflection_result_series_dict, the step ends in KeyError
\* with no reinforcement call and without brain.step().
C9_MissingReflectionFails ==
    ( /\ Polled /\ Truthy(Feedback) /\ Feedback["feedback"] # 0
      /\ Feedback["date"] \notin DOMAIN reflection_result_series_dict )
    => /\ outcome = "KeyError"
       /\ Reinforcements = <<>>
       /\ Count("brain_step") = 0

\* C9 witness: the action was applied, the feedback names a date never
\* reflected on, and the step ended in KeyError.
C9_Witness ==
    /\ Polled /\ Truthy(Feedback) /\ Feedback["feedback"] # 0
    /\ Feedback["date"] \notin DOMAIN reflection_result_series_dict
    /\ Count("record_action") = 1
    /\ outcome = "KeyError"

\* C10: when Portfolio has no feedback, or feedback of magnitude zero, the
\* reinforce phase makes no reinforcement call and cannot fail, even for a date
\* with no stored reflection; the step goes on to brain.step() and returns.
C10_NoOrZeroFeedback ==
    (Polled /\ (~Truthy(Feedback) \/ Feedback["feedback"] = 0))
    => /\ Reinforcements = <<>>
       /\ outcome = "return"
       /\ Count("brain_step") = 1
       /\ calls[Len(calls)].op = "brain_step"
       /\ calls[Len(calls) - 1].op = "get_feedback_response"

\* C10 witness: zero-magnitude feedback for a date never reflected on; the step
\* returned after brain.step().
C10_Witness ==
    /\ Polled /\ Truthy(Feedback) /\ Feedback["feedback"] = 0
    /\ Feedback["date"] \notin DOMAIN reflection_result_series_dict
    /\ outcome = "return"
    /\ Count("brain_step") = 1

-----------------------------------------------------------------------------
(* Claims on reinforcement counts, maintenance, ordering and bookkeeping   *)

\* dict.get(k, 0) on a counter dict.
GetOrZero(d, k) == IF k \in DOMAIN d THEN d[k] ELSE 0

SameDict(a, b) == DOMAIN a = DOMAIN b /\ \A k \in DOMAIN a : a[k] = b[k]

\* The step of the last call reached the end of step().
Completed == outcome = "return" /\ Count("record_action") = 1 /\ Count("brain_step") = 1

\* Non-zero feedback for a date without a stored reflection (the case of C9).
FeedbackForMissingDate ==
    /\ Truthy(Feedback) /\ Feedback["feedback"] # 0
    /\ Feedback["date"] \notin DOMAIN reflection_result_series_dict

\* A Test-mode result that is non-empty and has no decision label (the case of C3).
ResultWithoutDecision ==
    /\ inp.run_mode = "Test"
    /\ Truthy(Result)
    /\ "investment_decision" \notin DOMAIN Result

\* C11 (as claimed): for non-zero feedback on a date D with a stored reflection,
\* the number of reinforcement calls is the number of layers whose id list under
\* D is non-empty; a layer whose list is empty or absent gets no call, and no
\* call carries an empty id list.
C11_EmptyLayersSkipped ==
    ( /\ Polled /\ Truthy(Feedback) /\ Feedback["feedback"] # 0
      /\ Feedback["date"] \in DOMAIN reflection_result_series_dict )
    => LET cur_memory == reflection_result_series_dict[Feedback["date"]]
           filled == SelectSeq(LayersOf(cur_memory),
                               LAMBDA k : RecordedIds(cur_memory, k) # {})
       IN  /\ Len(Reinforcements) = Len(filled)
           /\ \A i \in DOMAIN Reinforcements : Reinforcements[i].ids # <<>>

\* C12 (as claimed): every non-done step with a valid mode calls brain.step()
\* exactly once, after the action was applied and after the feedback poll,
\* whatever the documents, the result and the feedback are.  Stated here for
\* the steps that the missing-decision failure of C3 does not touch: the claim
\* fails on those already.
C12_MaintenanceAlways ==
    (Ran /\ ~ResultWithoutDecision)
    => /\ Count("brain_step") = 1
       /\ Count("record_action") = 1
       /\ Count("get_feedback_response") = 1
       /\ calls[Len(calls)].op = "brain_step"

\* C12 (amended): a non-done step with a valid mode raises KeyError exactly when
\* it is a Test step whose non-empty result has no decision label, or its
\* feedback is non-zero for a date with no stored reflection; it then does not
\* call brain.step().  Every other such step, whatever its documents, result and
\* feedback, returns having called brain.step() exactly once, as its last call,
\* after the action and the feedback poll.
C12_MaintenanceUnlessRaised ==
    Ran
    => /\ (outcome = "KeyError") <=> (ResultWithoutDecision \/ FeedbackForMissingDate)
       /\ outcome \in {"KeyError", "return"}
       /\ outcome = "KeyError" => Count("brain_step") = 0
       /\ outcome = "return"
          => /\ Count("brain_step") = 1
             /\ Count("record_action") = 1
             /\ Count("get_feedback_response") = 1
             /\ calls[Len(calls)].op = "brain_step"

\* C12 witness: a Test step with no documents, an empty result (no decision) and
\* non-zero feedback that was reinforced: brain.step() called once, last.
C12_Witness ==
    /\ Ran /\ inp.run_mode = "Test"
    /\ ~Truthy(Result)
    /\ ~NeqEmptyDict(inp.market_info.news)
    /\ Truthy(Feedback) /\ Feedback["feedback"] # 0
    /\ Len(Reinforcements) >= 1
    /\ outcome = "return"
    /\ Count("brain_step") = 1
    /\ calls[Len(calls)].op = "brain_step"

\* C15 (as claimed): soft outcomes never raise.  A non-done step whose result is
\* empty or not converged (no summary_reason), or whose result carries a
\* decision while momentum is unavailable or the feedback magnitude is zero,
\* applies its action and calls brain.step(), in either mode, unless its
\* feedback is non-zero for a date never reflected on; and non-zero feedback for
\* a date whose stored reflection is the empty dict makes no reinforcement call
\* and does not fail.
C15_SoftOutcomesComplete ==
    /\ ( /\ Ran /\ ~FeedbackForMissingDate
         /\ \/ "summary_reason" \notin DOMAIN Result
            \/ "investment_decision" \in DOMAIN Result
            \/ inp.run_mode = "Train" )
       => Completed
    /\ ( /\ Polled /\ Truthy(Feedback) /\ Feedback["feedback"] # 0
         /\ Feedback["date"] \in DOMAIN reflection_result_series_dict
         /\ ~Truthy(reflection_result_series_dict[Feedback["date"]]) )
       => (Reinforcements = <<>> /\ Completed)

\* The place of each collaborator call in the order of a step.
PhaseOrder ==
    <<"add_memory_mid", "add_memory_long", "add_memory_short", "update_market_info",
      "query_short", "query_mid", "query_long", "query_reflection", "get_moment",
      "trading_reflection", "add_memory_reflection", "record_action",
      "update_portfolio_series", "get_feedback_response",
      "update_access_count_with_feed_back", "brain_step">>

Place(op) == CHOOSE i \in DOMAIN PhaseOrder : PhaseOrder[i] = op

\* C16: within every non-done step the collaborator calls come in one fixed
\* order: add to mid, long, short; update_market_info, exactly once, with the
\* current date and price, documents or not; the four queries, each once, and
\* get_moment in Test mode only; trading_reflection; the reflection-layer add;
\* record_action; the feedback poll; the reinforcement calls; brain.step().  No
\* call is followed by a call of an earlier phase (nor by one of its own phase,
\* the reinforcement calls apart), so every add of the ingest phase precedes
\* every query.
C16_PhaseOrder ==
    Ran
    => /\ \A i \in 1..(Len(calls) - 1) :
            \/ Place(calls[i].op) < Place(calls[i + 1].op)
            \/ /\ calls[i].op = "update_access_count_with_feed_back"
               /\ calls[i + 1].op = "update_access_count_with_feed_back"
       /\ Count("update_market_info") = 1
       /\ CallsOf("update_market_info")[1].date = CurDate
       /\ CallsOf("update_market_info")[1].price = inp.market_info.cur_price
       /\ \A q \in {"query_short", "query_mid", "query_long", "query_reflection",
                    "trading_reflection"} : Count(q) = 1
       /\ Count("get_moment") = (IF inp.run_mode = "Test" THEN 1 ELSE 0)

\* C16 witness: a completed Test step that stored a filing and news, wrote the
\* reflection layer and reinforced more than one layer.
C16_Witness ==
    /\ Ran /\ inp.run_mode = "Test" /\ outcome = "return"
    /\ Count("add_memory_mid") = 1 /\ Count("add_memory_short") = 1
    /\ Count("add_memory_reflection") = 1
    /\ Len(Reinforcements) >= 2
    /\ calls[1].op = "add_memory_mid"
    /\ calls[Len(calls)].op = "brain_step"

\* C18 (as claimed): access_counter mirrors the reinforcement issued: each step
\* raises access_counter[id] (absent counting as zero) by the number of
\* reinforcement calls of that step that carry id.
C18_AccessCounterMirrors ==
    [][ (pc = "idle" /\ pc' = "stepped")
        => \A id \in (DOMAIN access_counter) \cup (DOMAIN access_counter')
                     \cup UNION {Range(Reinforcements'[i].ids) : i \in DOMAIN Reinforcements'} :
              GetOrZero(access_counter', id) =
                GetOrZero(access_counter, id)
                + Cardinality({i \in DOMAIN Reinforcements' : id \in Range(Reinforcements'[i].ids)})
      ]_vars

\* C19: reflection_result_series_dict is append-only over steps.  A step that
\* reaches the reflect phase for date D leaves exactly the old dict with D's
\* entry set to the result, every other date's entry untouched, whatever the
\* act, reinforce and maintenance phases did; a step that does not reach it
\* leaves the dict as it was; no date is ever removed.
C19_AppendOnly ==
    [][ (pc = "idle" /\ pc' = "stepped")
        => LET old == reflection_result_series_dict
               new == reflection_result_series_dict'
               D == inp'.market_info.cur_date
           IN  /\ DOMAIN old \subseteq DOMAIN new
               /\ DOMAIN new \subseteq (DOMAIN old) \cup {D}
               /\ \A d \in DOMAIN old : d # D => SameDict(new[d], old[d])
               /\ IF Ran' THEN D \in DOMAIN new /\ SameDict(new[D], Result')
                  ELSE DOMAIN new = DOMAIN old /\ \A d \in DOMAIN old : SameDict(new[d], old[d])
      ]_vars

\* C19 witness: a step for a new date that reinforced an older date's
\* reflection, which is still stored.
C19_Witness ==
    /\ Ran /\ outcome = "return"
    /\ Len(Reinforcements) >= 1
    /\ Feedback["date"] # CurDate
    /\ Truthy(reflection_result_series_dict[Feedback["date"]])
    /\ Cardinality(DOMAIN reflection_result_series_dict) >= 2

-----------------------------------------------------------------------------
(* Claims on checkpoints                                                    *)

Saved == pc = "saved"

Loaded == pc = "loaded"

\* The directory save_checkpoint(CheckpointRoot, ...) writes to.
Dest == Join(CheckpointRoot, config.agent_name)

SameReflections(a, b) == DOMAIN a = DOMAIN b /\ \A d \in DOMAIN a : SameDict(a[d], b[d])

\* dir holds both parts of a snapshot, each written to its end.
CompleteSnapshot(dir) ==
    /\ DOMAIN dir = {"state_dict.pkl", "brain"}
    /\ "truncated" \notin DOMAIN dir["state_dict.pkl"]
    /\ dir["brain"].files # {}

\* dir holds a complete snapshot of the agent self, and nothing else.
SnapshotOf(dir, self) ==
    /\ CompleteSnapshot(dir)
    /\ LET state_dict == dir["state_dict.pkl"]
       IN  /\ SameReflections(state_dict.reflection_result_series_dict,
                              self.reflection_result_series_dict)
           /\ SameDict(state_dict.access_counter, self.access_counter)
           /\ state_dict.portfolio = self.portfolio
           /\ state_dict.agent_name = self.config.agent_name
           /\ state_dict.trading_symbol = self.config.trading_symbol
           /\ state_dict.character_string = self.config.character_string
           /\ state_dict.top_k = self.config.top_k
           /\ state_dict.counter = self.config.counter
           /\ state_dict.chat_end_point_name = self.config.chat_end_point_name
           /\ state_dict.chat_end_point_config = self.config.chat_end_point_config

\* The directory at path is the same on both file systems.
SameEntry(a, b, path) ==
    IF path \in DOMAIN a
    THEN /\ path \in DOMAIN b
         /\ DOMAIN a[path] = DOMAIN b[path]
         /\ \A name \in DOMAIN a[path] : a[path][name] = b[path][name]
    ELSE path \notin DOMAIN b

\* C13: a save onto a destination that exists.  Without force it raises
\* FileExistsError before any write or collaborator call and the destination
\* is as it was.  With force it never raises FileExistsError, no entry of the
\* old directory is left beside those of a snapshot, and when pickle.dump and
\* BrainDB.save_checkpoint succeed it returns and the destination holds
\* exactly the snapshot of the agent that was saved.
C13_SaveOntoExisting ==
    [][ (pc = "idle" /\ pc' = "saved" /\ Dest \in DOMAIN fs)
        => IF ~inp'.force
           THEN /\ outcome' = "FileExistsError"
                /\ calls' = <<>>
                /\ DOMAIN fs' = DOMAIN fs
                /\ SameEntry(fs, fs', Dest)
           ELSE /\ outcome' # "FileExistsError"
                /\ Dest \in DOMAIN fs'
                /\ DOMAIN fs'[Dest] \subseteq {"state_dict.pkl", "brain"}
                /\ (inp'.io.dump = "ok" /\ inp'.io.brain = "ok")
                   => (outcome' = "return" /\ SnapshotOf(fs'[Dest], Self))
      ]_vars

\* C13 witness: after at least one step, a forced save onto an existing
\* destination has returned and the destination holds the agent's snapshot.
C13_Witness ==
    /\ Saved /\ inp.force /\ inp.exists
    /\ outcome = "return"
    /\ SnapshotOf(fs[Dest], Self)
    /\ DOMAIN reflection_result_series_dict # {}

\* C14 (as claimed): a restore that returns, from the directory that holds a
\* complete snapshot of the agent as it is, yields an agent with the same
\* reflections, the same access counters and the same configuration scalars,
\* the look-back window size included.
C14_RoundTrip ==
    (Loaded /\ outcome = "return" /\ SnapshotOf(fs[inp.path], inp.before))
    => /\ SameReflections(reflection_result_series_dict,
                          inp.before.reflection_result_series_dict)
       /\ SameDict(access_counter, inp.before.access_counter)
       /\ portfolio = inp.before.portfolio
       /\ config.agent_name = inp.before.config.agent_name
       /\ config.trading_symbol = inp.before.config.trading_symbol
       /\ config.character_string = inp.before.config.character_string
       /\ config.top_k = inp.before.config.top_k
       /\ config.chat_end_point_name = inp.before.config.chat_end_point_name
       /\ config.chat_end_point_config = inp.before.config.chat_end_point_config
       /\ config.look_back_window_size = inp.before.config.look_back_window_size

\* C17 (as claimed): a save that fails after its collision check leaves the
\* destination as it was before the call, or holding a complete snapshot of
\* the agent.
C17_SaveIsAtomic ==
    [][ (pc = "idle" /\ pc' = "saved" /\ outcome' \notin {"return", "FileExistsError"})
        => \/ SameEntry(fs, fs', Dest)
           \/ (Dest \in DOMAIN fs' /\ SnapshotOf(fs'[Dest], Self))
      ]_vars

\* C20: through steps, saves and restores, every date the Portfolio holds an
\* action for has an entry in reflection_result_series_dict; and with a
\* Portfolio that reports feedback only for such dates (the date of the
\* current step included), every step that polls for feedback finds the
\* reflection of the feedback's date and returns.
C20_ActionDatesReflected ==
    /\ portfolio.action_dates \subseteq DOMAIN reflection_result_series_dict
    /\ Polled => (~FeedbackForMissingDate /\ outcome = "return")

\* C20 witness: an agent restored from a checkpoint (its Portfolio still has
\* the window size the constructor default has replaced) takes a step that
\* gets non-zero feedback for an earlier date, reinforces the memories of that
\* date's reflection and returns.
C20_Witness ==
    /\ Polled /\ outcome = "return"
    /\ Truthy(Feedback) /\ Feedback["date"] # CurDate
    /\ Len(Reinforcements) >= 1
    /\ Dest \in DOMAIN fs
    /\ config.look_back_window_size # portfolio.lookback_window_size

====
